---- MODULE Spec2Model ----
(***************************************************************************)
(* A model of coffee_machine.py: the Coffee / MilkCoffee abstract classes, *)
(* the three concrete beverages, CoffeeMachine, and the __main__ script.   *)
(*                                                                         *)
(* The module is either run as a script (__name__ = "__main__", the block  *)
(* at lines 47-63 executes) or imported, in which case a client creates    *)
(* beverages and machines and calls CoffeeMachine.prepare / add_milk in    *)
(* any order.                                                              *)
(*                                                                         *)
(* String literals are the source's, transliterated to ASCII (the parser   *)
(* accepts ASCII only): the cup and the glass pictographs are written      *)
(* "[cafe]" and "[leche]", and accented letters lose their accent.         *)
(***************************************************************************)
EXTENDS Naturals, Sequences, FiniteSets

VARIABLES
    name,       \* the module's __name__: "__main__" or "coffee_machine"
    pc,         \* line of the next statement of the module body; EndOfFile when finished
    globals,    \* the script's variables: name -> reference (0 = unbound)
    coffees,    \* the beverage objects created so far: reference -> class
    machines,   \* the CoffeeMachine objects: reference -> [coffee |-> reference]
    out,        \* standard output, one element per line
    calls,      \* history of the CoffeeMachine method calls made so far
    err         \* the uncaught exception that ended the program, or "none"

vars == <<name, pc, globals, coffees, machines, out, calls, err>>

(***************************************************************************)
(* Bounds of the client's activity when the module is imported.            *)
(***************************************************************************)
MaxCoffees == 2
MaxMachines == 2
MaxCalls == 2

(***************************************************************************)
(* Positions in the module body.                                           *)
(***************************************************************************)
MainGuard == 47
EndOfFile == 64

(***************************************************************************)
(* The class hierarchy (lines 4-32).                                       *)
(***************************************************************************)
Classes == {"Coffee", "MilkCoffee", "Espresso", "Cappuccino", "Latte"}

Variants == {"Espresso", "Cappuccino", "Latte"}

\* The class a class statement names in parentheses ("ABC" for the roots).
Base(cls) ==
    CASE cls = "Coffee"     -> "ABC"
      [] cls = "MilkCoffee" -> "Coffee"
      [] cls = "Espresso"   -> "Coffee"
      [] cls = "Cappuccino" -> "MilkCoffee"
      [] cls = "Latte"      -> "MilkCoffee"
      [] OTHER              -> "object"

\* The method resolution order of a class, most derived first.
RECURSIVE Mro(_)
Mro(cls) == IF cls \in Classes THEN <<cls>> \o Mro(Base(cls)) ELSE <<cls>>

IsSubclass(cls, of) == \E i \in 1..Len(Mro(cls)) : Mro(cls)[i] = of

\* The methods a class body declares with @abstractmethod.
AbstractDecls(cls) ==
    CASE cls = "Coffee"     -> {"prepare"}
      [] cls = "MilkCoffee" -> {"add_milk"}
      [] OTHER              -> {}

\* ConcreteDefs with Cappuccino's add_milk left out of the class body.
CappuccinoWithoutMilk(cls) ==
    CASE cls = "Espresso"   -> {"prepare"}
      [] cls = "Cappuccino" -> {"prepare"}
      [] cls = "Latte"      -> {"prepare", "add_milk"}
      [] OTHER              -> {}

\* The methods a class body defines with a real body.
ConcreteDefs(cls) ==
    CASE cls = "Espresso"   -> {"prepare"}
      [] cls = "Cappuccino" -> {"prepare", "add_milk"}
      [] cls = "Latte"      -> {"prepare", "add_milk"}
      [] OTHER              -> {}

\* The first class of the MRO whose body mentions the method, "" if none.
RECURSIVE FirstOwner(_, _)
FirstOwner(mro, method) ==
    IF mro = <<>> THEN ""
    ELSE IF method \in ConcreteDefs(Head(mro)) \cup AbstractDecls(Head(mro))
         THEN Head(mro)
         ELSE FirstOwner(Tail(mro), method)

\* abc: the methods still abstract in a class; a class with any cannot be
\* instantiated.
AbstractMethods(cls) ==
    { m \in {"prepare", "add_milk"} :
        /\ FirstOwner(Mro(cls), m) # ""
        /\ m \in AbstractDecls(FirstOwner(Mro(cls), m)) }

\* Body with Cappuccino.prepare returning Espresso's description.
PrepareCopyPaste(cls, method) ==
    CASE cls = "Espresso"   /\ method = "prepare"  -> "[cafe] Preparando un Espresso..."
      [] cls = "Cappuccino" /\ method = "prepare"  -> "[cafe] Preparando un Espresso..."
      [] cls = "Cappuccino" /\ method = "add_milk" -> "[leche] Anadiendo leche al Cappuccino..."
      [] cls = "Latte"      /\ method = "prepare"  -> "[cafe] Preparando un Latte..."
      [] cls = "Latte"      /\ method = "add_milk" -> "[leche] Anadiendo leche al Latte..."
      [] OTHER                                     -> ""

\* Body with Latte.add_milk returning Cappuccino's description.
MilkCopyPaste(cls, method) ==
    CASE cls = "Espresso"   /\ method = "prepare"  -> "[cafe] Preparando un Espresso..."
      [] cls = "Cappuccino" /\ method = "prepare"  -> "[cafe] Preparando un Cappuccino..."
      [] cls = "Cappuccino" /\ method = "add_milk" -> "[leche] Anadiendo leche al Cappuccino..."
      [] cls = "Latte"      /\ method = "prepare"  -> "[cafe] Preparando un Latte..."
      [] cls = "Latte"      /\ method = "add_milk" -> "[leche] Anadiendo leche al Cappuccino..."
      [] OTHER                                     -> ""

\* The string a method body returns (lines 18, 22, 25, 29, 32).
Body(cls, method) ==
    CASE cls = "Espresso"   /\ method = "prepare"  -> "[cafe] Preparando un Espresso..."
      [] cls = "Cappuccino" /\ method = "prepare"  -> "[cafe] Preparando un Cappuccino..."
      [] cls = "Cappuccino" /\ method = "add_milk" -> "[leche] Anadiendo leche al Cappuccino..."
      [] cls = "Latte"      /\ method = "prepare"  -> "[cafe] Preparando un Latte..."
      [] cls = "Latte"      /\ method = "add_milk" -> "[leche] Anadiendo leche al Latte..."
      [] OTHER                                     -> ""

\* obj.method() on an object of class cls: the attribute is looked up along
\* the MRO; a missing attribute raises AttributeError.
Invoke(cls, method) ==
    LET owner == FirstOwner(Mro(cls), method) IN
    IF owner = ""
    THEN [raised |-> "AttributeError", ret |-> ""]
    ELSE [raised |-> "none", ret |-> Body(owner, method)]

\* A test for one concrete class in place of isinstance.
IsExactType(cls, of) == cls = "Cappuccino"

\* isinstance(obj, of) for an object of class cls.
IsInstance(cls, of) == IsSubclass(cls, of)

\* The class of the object a reference designates; a reference that
\* designates no beverage is some other object.
ClassOf(ref) == IF ref \in 1..Len(coffees) THEN coffees[ref] ELSE "object"

(***************************************************************************)
(* CoffeeMachine (lines 35-44).  A method is an operator from the machine  *)
(* object to what the call does: the machine afterwards, the lines it      *)
(* prints, the exception it raises, the outcome of the capability check    *)
(* ("none" when the method makes none), the beverage method it dispatched  *)
(* to ("" for none) and what that returned.                                *)
(***************************************************************************)
\* Lines 36-37: self.coffee = coffee
CoffeeMachine_init(coffee) == [coffee |-> coffee]

\* prepare returning the description instead of printing it.
PrepareWithoutPrint(self) ==
    LET r == Invoke(ClassOf(self.coffee), "prepare") IN
    [self |-> self, printed |-> <<>>, raised |-> r.raised, check |-> "none",
     dispatched |-> "prepare", ret |-> r.ret]

\* prepare guarded by the milk capability check.
PrepareGuarded(self) ==
    LET cls == ClassOf(self.coffee)
        r == Invoke(cls, "prepare") IN
    IF IsInstance(cls, "MilkCoffee")
    THEN [self |-> self, printed |-> <<r.ret>>, raised |-> r.raised,
          check |-> "true", dispatched |-> "prepare", ret |-> r.ret]
    ELSE [self |-> self, printed |-> <<>>, raised |-> "none",
          check |-> "false", dispatched |-> "", ret |-> ""]

\* prepare storing the description in self.coffee: the attribute no longer
\* designates a beverage.
PrepareReassigns(self) ==
    LET r == Invoke(ClassOf(self.coffee), "prepare") IN
    [self |-> [self EXCEPT !.coffee = 0],
     printed |-> IF r.raised = "none" THEN <<r.ret>> ELSE <<>>,
     raised |-> r.raised, check |-> "none", dispatched |-> "prepare", ret |-> r.ret]

\* Lines 39-40: print(self.coffee.prepare())
CoffeeMachine_prepare(self) ==
    LET r == Invoke(ClassOf(self.coffee), "prepare") IN
    [self |-> self,
     printed |-> IF r.raised = "none" THEN <<r.ret>> ELSE <<>>,
     raised |-> r.raised, check |-> "none", dispatched |-> "prepare", ret |-> r.ret]

\* add_milk without the capability check.
AddMilkUnchecked(self) ==
    LET r == Invoke(ClassOf(self.coffee), "add_milk") IN
    [self |-> self,
     printed |-> IF r.raised = "none" THEN <<r.ret>> ELSE <<>>,
     raised |-> r.raised, check |-> "none", dispatched |-> "add_milk", ret |-> r.ret]

\* add_milk raising an error for a beverage without milk.
AddMilkRaises(self) ==
    LET cls == ClassOf(self.coffee)
        r == Invoke(cls, "add_milk") IN
    IF IsInstance(cls, "MilkCoffee")
    THEN [self |-> self,
          printed |-> IF r.raised = "none" THEN <<r.ret>> ELSE <<>>,
          raised |-> r.raised, check |-> "true", dispatched |-> "add_milk", ret |-> r.ret]
    ELSE [self |-> self, printed |-> <<>>, raised |-> "TypeError",
          check |-> "false", dispatched |-> "", ret |-> ""]

\* add_milk with the capability check inverted.
AddMilkInverted(self) ==
    LET cls == ClassOf(self.coffee)
        r == Invoke(cls, "add_milk") IN
    IF ~IsInstance(cls, "MilkCoffee")
    THEN [self |-> self,
          printed |-> IF r.raised = "none" THEN <<r.ret>> ELSE <<>>,
          raised |-> r.raised, check |-> "true", dispatched |-> "add_milk", ret |-> r.ret]
    ELSE [self |-> self, printed |-> <<>>, raised |-> "none",
          check |-> "false", dispatched |-> "", ret |-> ""]

\* Lines 42-44: if isinstance(self.coffee, MilkCoffee): print(self.coffee.add_milk())
CoffeeMachine_add_milk(self) ==
    LET cls == ClassOf(self.coffee)
        r == Invoke(cls, "add_milk") IN
    IF IsInstance(cls, "MilkCoffee")
    THEN [self |-> self,
          printed |-> IF r.raised = "none" THEN <<r.ret>> ELSE <<>>,
          raised |-> r.raised, check |-> "true", dispatched |-> "add_milk", ret |-> r.ret]
    ELSE [self |-> self, printed |-> <<>>, raised |-> "none",
          check |-> "false", dispatched |-> "", ret |-> ""]

(***************************************************************************)
(* The effects shared by the script and by an importing client.            *)
(***************************************************************************)
\* cls(): abc refuses to instantiate a class with abstract methods left.
Instantiate(cls) ==
    IF AbstractMethods(cls) = {}
    THEN coffees' = Append(coffees, cls) /\ err' = err
    ELSE coffees' = coffees /\ err' = "TypeError"

\* machines[m].<op>() with op one of "prepare", "add_milk".
CallMachine(m, op) ==
    LET r == IF op = "prepare" THEN CoffeeMachine_prepare(machines[m])
                               ELSE CoffeeMachine_add_milk(machines[m]) IN
    /\ machines' = [machines EXCEPT ![m] = r.self]
    /\ out' = out \o r.printed
    /\ err' = r.raised
    /\ calls' = Append(calls, [op |-> op, m |-> m,
                               cls |-> ClassOf(machines[m].coffee),
                               check |-> r.check, dispatched |-> r.dispatched,
                               ret |-> r.ret, raised |-> r.raised,
                               printed |-> r.printed])
    /\ UNCHANGED coffees

(***************************************************************************)
(* The script (lines 47-63).                                               *)
(***************************************************************************)
VarNames == {"espresso", "cappuccino", "latte", "machine1", "machine2", "machine3"}

ScriptLines == {48, 49, 50, 52, 54, 55, 57, 58, 59, 61, 62, 63}

Banner == "---- Maquina de Cafe ----"

\* The statement at a line of the script.
Statement(line) ==
    CASE line = 48 -> [kind |-> "new", var |-> "espresso", arg |-> "Espresso"]
      [] line = 49 -> [kind |-> "new", var |-> "cappuccino", arg |-> "Cappuccino"]
      [] line = 50 -> [kind |-> "new", var |-> "latte", arg |-> "Latte"]
      [] line = 52 -> [kind |-> "print", var |-> "", arg |-> Banner]
      [] line = 54 -> [kind |-> "machine", var |-> "machine1", arg |-> "espresso"]
      [] line = 55 -> [kind |-> "call", var |-> "machine1", arg |-> "prepare"]
      [] line = 57 -> [kind |-> "machine", var |-> "machine2", arg |-> "cappuccino"]
      [] line = 58 -> [kind |-> "call", var |-> "machine2", arg |-> "prepare"]
      [] line = 59 -> [kind |-> "call", var |-> "machine2", arg |-> "add_milk"]
      [] line = 61 -> [kind |-> "machine", var |-> "machine3", arg |-> "latte"]
      [] line = 62 -> [kind |-> "call", var |-> "machine3", arg |-> "prepare"]
      [] line = 63 -> [kind |-> "call", var |-> "machine3", arg |-> "add_milk"]
      [] OTHER     -> [kind |-> "blank", var |-> "", arg |-> ""]

\* The line of the statement executed after the one at line.
Successor(line) ==
    IF \E l \in ScriptLines : l > line
    THEN CHOOSE l \in ScriptLines : l > line /\ \A k \in ScriptLines : k > line => l <= k
    ELSE EndOfFile

Running == err = "none" /\ pc \in ScriptLines

\* Line 47: the block runs only when the module is the program.
RunGuard ==
    /\ err = "none" /\ pc = MainGuard
    /\ pc' = IF name = "__main__" THEN Successor(MainGuard) ELSE EndOfFile
    /\ UNCHANGED <<name, globals, coffees, machines, out, calls, err>>

\* Lines 48-50: var = Class()
RunNew ==
    /\ Running /\ Statement(pc).kind = "new"
    /\ Instantiate(Statement(pc).arg)
    /\ IF err' = "none"
       THEN /\ globals' = [globals EXCEPT ![Statement(pc).var] = Len(coffees')]
            /\ pc' = Successor(pc)
       ELSE UNCHANGED <<globals, pc>>
    /\ UNCHANGED <<name, machines, out, calls>>

\* Line 52: print(banner)
RunPrint ==
    /\ Running /\ Statement(pc).kind = "print"
    /\ out' = Append(out, Statement(pc).arg)
    /\ pc' = Successor(pc)
    /\ UNCHANGED <<name, globals, coffees, machines, calls, err>>

\* Lines 54, 57, 61: var = CoffeeMachine(beverage)
RunMachine ==
    /\ Running /\ Statement(pc).kind = "machine"
    /\ machines' = Append(machines, CoffeeMachine_init(globals[Statement(pc).arg]))
    /\ globals' = [globals EXCEPT ![Statement(pc).var] = Len(machines')]
    /\ pc' = Successor(pc)
    /\ UNCHANGED <<name, coffees, out, calls, err>>

\* Lines 55, 58, 59, 62, 63: machine.prepare() or machine.add_milk()
RunCall ==
    /\ Running /\ Statement(pc).kind = "call"
    /\ CallMachine(globals[Statement(pc).var], Statement(pc).arg)
    /\ pc' = IF err' = "none" THEN Successor(pc) ELSE pc
    /\ UNCHANGED <<name, globals>>

Main == RunGuard \/ RunNew \/ RunPrint \/ RunMachine \/ RunCall

(***************************************************************************)
(* A client of the imported module.                                        *)
(***************************************************************************)
Imported == name # "__main__" /\ pc = EndOfFile /\ err = "none"

ClientNew(cls) ==
    /\ Imported /\ Len(coffees) < MaxCoffees
    /\ Instantiate(cls)
    /\ UNCHANGED <<name, pc, globals, machines, out, calls>>

ClientMachine(c) ==
    /\ Imported /\ Len(machines) < MaxMachines
    /\ machines' = Append(machines, CoffeeMachine_init(c))
    /\ UNCHANGED <<name, pc, globals, coffees, out, calls, err>>

ClientPrepare(m) ==
    /\ Imported /\ Len(calls) < MaxCalls
    /\ CallMachine(m, "prepare")
    /\ UNCHANGED <<name, pc, globals>>

ClientAddMilk(m) ==
    /\ Imported /\ Len(calls) < MaxCalls
    /\ CallMachine(m, "add_milk")
    /\ UNCHANGED <<name, pc, globals>>

Init ==
    /\ name \in {"__main__", "coffee_machine"}
    /\ pc = MainGuard
    /\ globals = [v \in VarNames |-> 0]
    /\ coffees = <<>>
    /\ machines = <<>>
    /\ out = <<>>
    /\ calls = <<>>
    /\ err = "none"

Next ==
    \/ RunGuard
    \/ RunNew
    \/ RunPrint
    \/ RunMachine
    \/ RunCall
    \/ \E cls \in Classes : ClientNew(cls)
    \/ \E c \in 1..Len(coffees) : ClientMachine(c)
    \/ \E m \in 1..Len(machines) : ClientPrepare(m)
    \/ \E m \in 1..Len(machines) : ClientAddMilk(m)

Spec == Init /\ [][Next]_vars

\* The interpreter runs the script's next statement whenever there is one.
FairSpec == Spec /\ WF_vars(Main)

(***************************************************************************)
(* Properties.                                                             *)
(***************************************************************************)
\* The step is a call of CoffeeMachine.<op>: the history gains its record.
Called(op) == Len(calls') = Len(calls) + 1 /\ calls'[Len(calls')].op = op

\* The class of the beverage held by the machine the step's call is made on.
CalledClass == ClassOf(machines[calls'[Len(calls')].m].coffee)

\* The calls made on machine m, in order.
CallsOn(m) == SelectSeq(calls, LAMBDA e : e.m = m)

\* C1: whatever calls were made, the beverage's add_milk was never invoked
\* on an Espresso, and each invocation followed a capability check that
\* succeeded.
C1_NoMilkWithoutCapability ==
    \A i \in 1..Len(calls) :
        calls[i].dispatched = "add_milk" =>
            /\ calls[i].check = "true"
            /\ calls[i].cls # "Espresso"
            /\ calls[i].cls \in {"Cappuccino", "Latte"}

C1_Witness ==
    /\ \E i \in 1..Len(calls) :
          calls[i].op = "add_milk" /\ calls[i].cls = "Espresso"
    /\ \E i \in 1..Len(calls) :
          calls[i].dispatched = "add_milk" /\ calls[i].cls = "Cappuccino"

\* C2: CoffeeMachine.add_milk on a machine that holds an Espresso prints
\* nothing, raises nothing and leaves every machine and beverage as it was.
C2_EspressoAddMilkIsNoOp ==
    [][ (Called("add_milk") /\ CalledClass = "Espresso") =>
            /\ out' = out
            /\ err' = "none"
            /\ calls'[Len(calls')].raised = "none"
            /\ machines' = machines
            /\ coffees' = coffees ]_vars

C2_Witness ==
    /\ Len(calls) = 2
    /\ calls[1].op = "prepare"
    /\ calls[2].op = "add_milk" /\ calls[2].cls = "Espresso"
    /\ Len(out) = 1

\* C3: the script prints the banner and the five descriptions in the fixed
\* order, and nothing else: its output is always a prefix of those six
\* lines, and all six when it has finished.
ReferenceOutput ==
    << "---- Maquina de Cafe ----",
       "[cafe] Preparando un Espresso...",
       "[cafe] Preparando un Cappuccino...",
       "[leche] Anadiendo leche al Cappuccino...",
       "[cafe] Preparando un Latte...",
       "[leche] Anadiendo leche al Latte..." >>

C3_ReferenceScenarioOutput ==
    name = "__main__" =>
        /\ Len(out) <= Len(ReferenceOutput)
        /\ out = SubSeq(ReferenceOutput, 1, Len(out))
        /\ pc = EndOfFile => out = ReferenceOutput

C3_Witness == name = "__main__" /\ pc = EndOfFile /\ Len(out) = 6

\* C4: prepare() of a variant returns a non-empty string, the same at every
\* call on that variant and different from the other variants' strings.
C4_PrepareFixedAndDistinct ==
    \A i, j \in 1..Len(calls) :
        (calls[i].dispatched = "prepare" /\ calls[j].dispatched = "prepare") =>
            /\ calls[i].raised = "none"
            /\ calls[i].ret # ""
            /\ (calls[i].cls = calls[j].cls) <=> (calls[i].ret = calls[j].ret)

C4_Witness ==
    /\ name # "__main__"
    /\ Len(calls) = 2
    /\ calls[1].dispatched = "prepare" /\ calls[2].dispatched = "prepare"
    /\ calls[1].m = calls[2].m

\* C5: add_milk() of Cappuccino and of Latte returns a non-empty string, the
\* same at every call on that variant, different from the other variant's
\* and from every prepare() string.
C5_AddMilkFixedAndDistinct ==
    \A i, j \in 1..Len(calls) :
        calls[i].dispatched = "add_milk" =>
            /\ calls[i].raised = "none"
            /\ calls[i].ret # ""
            /\ calls[j].dispatched = "add_milk" =>
                  ((calls[i].cls = calls[j].cls) <=> (calls[i].ret = calls[j].ret))
            /\ calls[j].dispatched = "prepare" => calls[i].ret # calls[j].ret

C5_Witness ==
    /\ name = "__main__"
    /\ \E i, j, k \in 1..Len(calls) :
          /\ i < j /\ j < k
          /\ calls[i].dispatched = "add_milk" /\ calls[i].cls = "Cappuccino"
          /\ calls[j].dispatched = "prepare"
          /\ calls[k].dispatched = "add_milk" /\ calls[k].cls = "Latte"

\* What a caller observes of machine m: for each call made on it, the lines
\* it printed and the exception it raised.
Observed(m) ==
    [i \in 1..Len(CallsOn(m)) |->
        [printed |-> CallsOn(m)[i].printed, raised |-> CallsOn(m)[i].raised]]

\* The same with the text of the lines left out: how many lines each call
\* printed and the exception it raised.
ObservedShape(m) ==
    [i \in 1..Len(CallsOn(m)) |->
        [lines |-> Len(CallsOn(m)[i].printed), raised |-> CallsOn(m)[i].raised]]

OnlyPrepared(m) == \A i \in 1..Len(CallsOn(m)) : CallsOn(m)[i].op = "prepare"

\* Two machines that hold different variants and have received the same
\* non-empty sequence of prepare() calls and no other call.
Substituted(m1, m2) ==
    /\ ClassOf(machines[m1].coffee) \in Variants
    /\ ClassOf(machines[m2].coffee) \in Variants
    /\ ClassOf(machines[m1].coffee) # ClassOf(machines[m2].coffee)
    /\ OnlyPrepared(m1) /\ OnlyPrepared(m2)
    /\ Len(CallsOn(m1)) = Len(CallsOn(m2))
    /\ Len(CallsOn(m1)) > 0

\* C6 as stated: two machines that differ only in the variant held and
\* received the same prepare() calls show the same observable behaviour.
C6_SameObservableBehaviour ==
    \A m1, m2 \in 1..Len(machines) :
        Substituted(m1, m2) => Observed(m1) = Observed(m2)

\* C6 amended: two such machines behave alike except for the text printed:
\* every call succeeds and prints exactly one line, which is the
\* description of the variant the machine holds.
C6_SameBehaviourUpToText ==
    \A m1, m2 \in 1..Len(machines) :
        Substituted(m1, m2) =>
            /\ ObservedShape(m1) = ObservedShape(m2)
            /\ \A i \in 1..Len(CallsOn(m1)) :
                  /\ Observed(m1)[i].raised = "none"
                  /\ Observed(m1)[i].printed =
                        <<Body(ClassOf(machines[m1].coffee), "prepare")>>

C6_Witness ==
    /\ name # "__main__"
    /\ \E m1, m2 \in 1..Len(machines) :
          Substituted(m1, m2) /\ Observed(m1) # Observed(m2)

\* C7: no step changes the beverage an existing machine holds, nor an
\* existing beverage; machines and beverages are only ever added.
C7_MachineKeepsItsBeverage ==
    [][ /\ Len(machines') >= Len(machines)
        /\ \A m \in 1..Len(machines) : machines'[m] = machines[m]
        /\ Len(coffees') >= Len(coffees)
        /\ \A c \in 1..Len(coffees) : coffees'[c] = coffees[c] ]_vars

C7_Witness ==
    /\ Len(machines) = 2
    /\ machines[1].coffee # machines[2].coffee
    /\ Len(calls) = 2
    /\ calls[1].m = 1 /\ calls[1].op = "prepare"
    /\ calls[2].m = 2 /\ calls[2].op = "add_milk"

\* C8: run as a script, the program reaches the end of the file, and on the
\* way no exception is raised, by any call or otherwise.
C8_ScriptTerminates ==
    /\ [](name = "__main__" =>
            /\ err = "none"
            /\ \A i \in 1..Len(calls) : calls[i].raised = "none")
    /\ (name = "__main__") ~> (pc = EndOfFile /\ err = "none")

C8_Witness ==
    /\ name = "__main__" /\ pc = EndOfFile /\ err = "none"
    /\ Len(calls) = 5 /\ Len(machines) = 3

\* C9: CoffeeMachine.prepare on a machine holding a variant raises nothing
\* and appends exactly one line, the string the beverage's prepare() returns.
C9_PreparePrintsOneLine ==
    [][ (Called("prepare") /\ CalledClass \in Variants) =>
            /\ err' = "none"
            /\ calls'[Len(calls')].raised = "none"
            /\ Len(out') = Len(out) + 1
            /\ out' = Append(out, Invoke(CalledClass, "prepare").ret) ]_vars

C9_Witness ==
    \A v \in Variants :
        \E i \in 1..Len(calls) : calls[i].op = "prepare" /\ calls[i].cls = v

\* C10: CoffeeMachine.add_milk has two outcomes.  The capability check is
\* true for Cappuccino and Latte, and the call then appends exactly one
\* line, the string the beverage's add_milk() returns; it is false for
\* Espresso, and the call then does nothing.
C10_AddMilkTwoOutcomes ==
    [][ (Called("add_milk") /\ CalledClass \in Variants) =>
            /\ CalledClass \in {"Cappuccino", "Latte"} =>
                  /\ calls'[Len(calls')].check = "true"
                  /\ calls'[Len(calls')].dispatched = "add_milk"
                  /\ out' = Append(out, Invoke(CalledClass, "add_milk").ret)
                  /\ err' = "none"
            /\ CalledClass = "Espresso" =>
                  /\ calls'[Len(calls')].check = "false"
                  /\ calls'[Len(calls')].dispatched = ""
                  /\ out' = out
                  /\ err' = "none" ]_vars

C10_Witness ==
    /\ Len(calls) = 2
    /\ calls[1].op = "add_milk" /\ calls[1].cls = "Espresso" /\ calls[1].printed = <<>>
    /\ calls[2].op = "add_milk" /\ calls[2].cls = "Latte" /\ Len(calls[2].printed) = 1

====
